---- MODULE Spec2Model ----
(***************************************************************************)
(* Model of the Element-Plus compatibility layer of frontend-primevue:     *)
(*   - the menu navigation state of ElMenu / ElMenuItem / ElSubMenu        *)
(*     (plugins/primevue-compat.ts), checked under Spec, and under         *)
(*     SpecLife with the setup of the submenus and a prop change;          *)
(*   - the PrimeVue service registry and the ElMessage adapter             *)
(*     (compat/element-plus.ts), checked under SpecMsg;                    *)
(*   - ElMessageBox and the confirmation service, checked under SpecBox,   *)
(*     and together with the registry and ElMessage under SpecReg;         *)
(*   - ElPagination, ElSelect, ElCheckbox and ElRadio, checked under       *)
(*     SpecAd, and ElDatePicker, checked under SpecDate.                   *)
(* JavaScript strings that are compared by prefix are sequences of         *)
(* one-character strings, so that startsWith is computed and not assumed.  *)
(***************************************************************************)
EXTENDS Integers, Sequences, FiniteSets, TLC

VARIABLES
    props,          \* ElMenu props: defaultActive, uniqueOpened, router
    menuContext,    \* the object ElMenu provides: values copied at setup
    routeFullPath,  \* route.fullPath of the routing service
    openedKeys,     \* openedKeys.value : Set<string>
    parentMap,      \* parentMap.value : Map<string, string | null>
    pendingPush,    \* router.push requests not yet resolved by the router
    emitted,        \* events emitted by ElMenuItem / ElMenu
    last,           \* the last menu operation: [op, key, parent]
    toastService,   \* registry slot of the toast service
    confirmService, \* registry slot of the confirmation service
    lastToastArg,   \* argument of the latest setPrimeToastService call
    lastConfirmArg, \* argument of the latest setPrimeConfirmService call
    toastAdded,     \* records handed to toast.add: <<[to, rec]>>
    consoleLog,     \* arguments of console.log, in order
    lastCall,       \* the last registry / message call and its arguments
    promises,       \* the promises ElMessageBox has returned, in order
    requests,       \* the requests handed to confirm.require, in order
    nativeLog,      \* the window.confirm / alert / prompt calls, in order
    nativeDialog,   \* the native dialog that blocks the thread, if any
    lastBox,        \* the last ElMessageBox / dialog step
    pgProps,        \* ElPagination props: currentPage, pageSize, total
    cbModelValue,   \* the modelValue prop of the standalone ElCheckbox
    groupModel,     \* the modelValue props of ElCheckboxGroup / ElRadioGroup
    adEmitted,      \* what the last adapter handler emitted: <<[by, name, payload]>>
    lastAd,         \* the last adapter step and its argument
    dpProps,        \* ElDatePicker props: modelValue, type
    dpShown,        \* the modelValue handed to the DatePicker widget
    lastDp,         \* the last ElDatePicker render: [op, now]
    mounted         \* the ElSubMenu nodes whose setup has run

menuVars == <<props, menuContext, routeFullPath, openedKeys, parentMap,
              pendingPush, emitted, last>>
msgVars == <<toastService, confirmService, lastToastArg, lastConfirmArg,
             toastAdded, consoleLog, lastCall>>
boxVars == <<promises, requests, nativeLog, nativeDialog, lastBox>>
adVars == <<pgProps, cbModelValue, groupModel, adEmitted, lastAd>>
dpVars == <<dpProps, dpShown, lastDp>>
lifeVars == <<mounted>>
vars == <<props, menuContext, routeFullPath, openedKeys, parentMap,
          pendingPush, emitted, last, toastService, confirmService,
          lastToastArg, lastConfirmArg, toastAdded, consoleLog, lastCall,
          promises, requests, nativeLog, nativeDialog, lastBox,
          pgProps, cbModelValue, groupModel, adEmitted, lastAd,
          dpProps, dpShown, lastDp, mounted>>

----------------------------------------------------------------------------
(* JavaScript values *)

\* the empty string ''
Empty == <<>>

\* null and undefined: no string over the alphabet equals either
Null == <<"null">>
Undefined == <<"undefined">>

\* a || b on strings: '' is the only falsy string
OrElse(a, b) == IF a # Empty THEN a ELSE b

\* a ?? b
Nullish(a, b) == IF a = Null \/ a = Undefined THEN b ELSE a

\* String.prototype.startsWith
startsWith(s, p) == Len(p) <= Len(s) /\ SubSeq(s, 1, Len(p)) = p

----------------------------------------------------------------------------
(* The menu under test: keys, route paths and the slot tree *)

KeyA == <<"/", "a">>
KeyAB == <<"/", "a", "b">>
KeyB == <<"/", "b">>
PathAX == <<"/", "a", "/", "x">>
PathC == <<"/", "c">>
PathD == <<"/", "d">>
PathRoot == <<"/">>

\* the non-empty submenu keys that are toggled and registered
SubKeys == {KeyA, KeyAB, KeyB}

\* the parent keys submenus register with: none, or the enclosing '/a'
ParentKeys == {Null, KeyA}

\* route.fullPath always starts with '/', so it is never ''
RoutePaths == {PathRoot, PathAX, PathC, PathD, KeyAB}

\* the routes visited while the submenus are being set up
LifePaths == {PathRoot, PathAX}

\* values of the defaultActive prop ('' is the prop's default)
DefaultActives == {Empty, PathC}

\* bound on unresolved router.push requests
MaxPending == 1

(* The rendered slot tree.  Node 0 is the ElMenu root.                     *)
(*   1 ElSubMenu '/a'                                                      *)
(*       2 <template v-for> fragment                                       *)
(*           3 ElMenuItem '/a/x'                                           *)
(*       4 ElSubMenu '/b'                                                  *)
(*           5 ElMenuItem '/c'                                             *)
(*   6 ElSubMenu '/ab'                                                     *)
(*       7 ElSubMenu ''                                                    *)
(*           8 ElMenuItem '/d'                                             *)
(*   9 ElMenuItem ''                                                       *)
MenuTree ==
    [n \in 1..9 |->
        CASE n = 1 -> [kind |-> "submenu", index |-> KeyA, parent |-> 0]
          [] n = 2 -> [kind |-> "fragment", index |-> Empty, parent |-> 1]
          [] n = 3 -> [kind |-> "item", index |-> PathAX, parent |-> 2]
          [] n = 4 -> [kind |-> "submenu", index |-> KeyB, parent |-> 1]
          [] n = 5 -> [kind |-> "item", index |-> PathC, parent |-> 4]
          [] n = 6 -> [kind |-> "submenu", index |-> KeyAB, parent |-> 0]
          [] n = 7 -> [kind |-> "submenu", index |-> Empty, parent |-> 6]
          [] n = 8 -> [kind |-> "item", index |-> PathD, parent |-> 7]
          [] n = 9 -> [kind |-> "item", index |-> Empty, parent |-> 0]]

Nodes == DOMAIN MenuTree
SubMenuNodes == {n \in Nodes : MenuTree[n].kind = "submenu"}
ItemNodes == {n \in Nodes : MenuTree[n].kind = "item"}

\* node.children when it is an array: the children of an element or fragment
ArrayChildren(n) ==
    IF MenuTree[n].kind = "fragment"
    THEN {c \in Nodes : MenuTree[c].parent = n} ELSE {}

\* node.children.default(): the default slot of a component vnode
SlotChildren(n) ==
    IF MenuTree[n].kind = "submenu"
    THEN {c \in Nodes : MenuTree[c].parent = n} ELSE {}

\* provide(subMenuParentKey, props.index || parentKey) / inject(..., null)
RECURSIVE injectedParentKey(_)
injectedParentKey(n) ==
    LET p == MenuTree[n].parent IN
    IF p = 0 THEN Null
    ELSE IF MenuTree[p].kind = "submenu"
         THEN OrElse(MenuTree[p].index, injectedParentKey(p))
         ELSE injectedParentKey(p)

----------------------------------------------------------------------------
(* ElMenu *)

\* slip: the route path takes precedence over the configured default
activePath_routeFirst == OrElse(routeFullPath, props.defaultActive)

\* computed(() => props.defaultActive || route.fullPath)
activePath == OrElse(props.defaultActive, routeFullPath)

\* slip: a key without an entry is taken to be its own parent
MapGet_ownGroup(key) == IF key \in DOMAIN parentMap THEN parentMap[key] ELSE key

\* parentMap.value.get(key)
MapGet(key) == IF key \in DOMAIN parentMap THEN parentMap[key] ELSE Undefined

\* the for-of loop of toggleOpen over the copy of the opened keys
RECURSIVE closeSiblings(_, _, _)
closeSiblings(next, todo, parentKey) ==
    IF todo = {} THEN next
    ELSE LET openedKey == CHOOSE k \in todo : TRUE
             openedParent == Nullish(MapGet(openedKey), Null)
         IN closeSiblings(IF openedParent = parentKey
                          THEN next \ {openedKey} ELSE next,
                          todo \ {openedKey}, parentKey)

\* slip: an opened key is left opened
toggleFrom_addOnly(opened, key) ==
    LET parentKey == Nullish(MapGet(key), Null) IN
    IF props.uniqueOpened
    THEN closeSiblings(opened, opened, parentKey) \cup {key}
    ELSE opened \cup {key}

\* the set toggleOpen computes from a given value of openedKeys.value
toggleFrom(opened, key) ==
    LET parentKey == Nullish(MapGet(key), Null) IN
    IF key \in opened THEN opened \ {key}
    ELSE IF props.uniqueOpened
         THEN closeSiblings(opened, opened, parentKey) \cup {key}
         ELSE opened \cup {key}

\* slip: with uniqueOpened every opened key is closed, whatever its parent
toggleResult_clearAll(key) ==
    IF key \in openedKeys THEN openedKeys \ {key}
    ELSE IF props.uniqueOpened THEN {key} ELSE openedKeys \cup {key}

\* the value toggleOpen assigns to openedKeys.value
toggleResult(key) == toggleFrom(openedKeys, key)

\* slip: a registration also opens the key
registerSubMenu_opens(key, parentKey) ==
    /\ parentMap' = IF key = Empty THEN parentMap
                    ELSE [k \in DOMAIN parentMap \cup {key} |->
                            IF k = key THEN parentKey ELSE parentMap[k]]
    /\ openedKeys' = IF key = Empty THEN openedKeys
                     ELSE openedKeys \cup {key}
    /\ last' = [op |-> "registerSubMenu", key |-> key, parent |-> parentKey]
    /\ UNCHANGED <<props, menuContext, routeFullPath, pendingPush, emitted>>
    /\ UNCHANGED <<msgVars, boxVars, adVars, dpVars, lifeVars>>

registerSubMenu(key, parentKey) ==
    /\ parentMap' = IF key = Empty THEN parentMap
                    ELSE [k \in DOMAIN parentMap \cup {key} |->
                            IF k = key THEN parentKey ELSE parentMap[k]]
    /\ last' = [op |-> "registerSubMenu", key |-> key, parent |-> parentKey]
    /\ UNCHANGED <<props, menuContext, routeFullPath, openedKeys,
                   pendingPush, emitted>>
    /\ UNCHANGED <<msgVars, boxVars, adVars, dpVars, lifeVars>>

\* slip: the empty key is toggled like any other
toggleOpen_noGuard(key) ==
    /\ openedKeys' = toggleResult(key)
    /\ last' = [op |-> "toggleOpen", key |-> key, parent |-> Null]
    /\ UNCHANGED <<props, menuContext, routeFullPath, parentMap,
                   pendingPush, emitted>>
    /\ UNCHANGED <<msgVars, boxVars, adVars, dpVars, lifeVars>>

toggleOpen(key) ==
    /\ openedKeys' = IF key = Empty THEN openedKeys ELSE toggleResult(key)
    /\ last' = [op |-> "toggleOpen", key |-> key, parent |-> Null]
    /\ UNCHANGED <<props, menuContext, routeFullPath, parentMap,
                   pendingPush, emitted>>
    /\ UNCHANGED <<msgVars, boxVars, adVars, dpVars, lifeVars>>

\* ElMenu's isOpened, provided in the menu context
isOpened(key) == key \in openedKeys

----------------------------------------------------------------------------
(* ElMenuItem *)

\* computed(() => menu?.activePath() || route.fullPath)
activeKey == OrElse(activePath, routeFullPath)

\* computed(() => !!props.index && activeKey.value === props.index)
isActive(n) == MenuTree[n].index # Empty /\ activeKey = MenuTree[n].index

\* the click handler of the item rendered at node n
handleClick(n) ==
    LET index == MenuTree[n].index IN
    /\ (index # Empty /\ menuContext.router) => Len(pendingPush) < MaxPending
    /\ pendingPush' = IF index # Empty /\ menuContext.router
                      THEN Append(pendingPush, index) ELSE pendingPush
    /\ last' = [op |-> "handleClick", key |-> index, parent |-> Null]
    /\ UNCHANGED <<props, menuContext, routeFullPath, openedKeys, parentMap,
                   emitted>>
    /\ UNCHANGED <<msgVars, boxVars, adVars, dpVars, lifeVars>>

----------------------------------------------------------------------------
(* ElSubMenu *)

\* slip: only the nodes handed in are inspected, not their children
findActiveIndex_direct(nodes, path) ==
    \E node \in nodes :
        MenuTree[node].index # Empty /\ MenuTree[node].index = path

RECURSIVE findActiveIndex(_, _)
findActiveIndex(nodes, path) ==
    \E node \in nodes :
        \/ MenuTree[node].index # Empty /\ MenuTree[node].index = path
        \/ findActiveIndex(ArrayChildren(node), path)
        \/ findActiveIndex(SlotChildren(node), path)

\* computed: activePath = menu?.activePath() || ''
hasActiveChild(n) ==
    LET path == OrElse(activePath, Empty) IN
    path # Empty /\ findActiveIndex(SlotChildren(n), path)

\* slip: the active-child rule is left out
ElSubMenu_isOpened_noActiveChild(n) ==
    \/ isOpened(MenuTree[n].index)
    \/ MenuTree[n].index # Empty /\ startsWith(activePath, MenuTree[n].index)

\* the computed isOpened of the submenu rendered at node n, inside a menu
ElSubMenu_isOpened(n) ==
    \/ isOpened(MenuTree[n].index)
    \/ hasActiveChild(n)
    \/ MenuTree[n].index # Empty /\ startsWith(activePath, MenuTree[n].index)

\* the title click handler of the submenu rendered at node n
handleToggle(n) ==
    IF MenuTree[n].index = Empty
    THEN /\ last' = [op |-> "handleToggle", key |-> Empty, parent |-> Null]
         /\ UNCHANGED <<props, menuContext, routeFullPath, openedKeys,
                        parentMap, pendingPush, emitted>>
         /\ UNCHANGED <<msgVars, boxVars, adVars, dpVars, lifeVars>>
    ELSE toggleOpen(MenuTree[n].index)

\* the submenu node whose setup provided the parent key node n injects
RECURSIVE enclosingSubMenu(_)
enclosingSubMenu(n) ==
    LET p == MenuTree[n].parent IN
    IF p = 0 THEN 0
    ELSE IF MenuTree[p].kind = "submenu" THEN p
    ELSE enclosingSubMenu(p)

\* ElSubMenu.setup of node n: it runs once, after the setup of the submenu
\* around it, and registers the node before its render function exists
ElSubMenu_setup(n) ==
    LET key == MenuTree[n].index
        parentKey == injectedParentKey(n)
    IN
    /\ n \notin mounted
    /\ enclosingSubMenu(n) # 0 => enclosingSubMenu(n) \in mounted
    /\ mounted' = mounted \cup {n}
    /\ parentMap' = IF key = Empty THEN parentMap
                    ELSE [k \in DOMAIN parentMap \cup {key} |->
                            IF k = key THEN parentKey ELSE parentMap[k]]
    /\ last' = [op |-> "ElSubMenu.setup", key |-> key, parent |-> parentKey]
    /\ UNCHANGED <<props, menuContext, routeFullPath, openedKeys,
                   pendingPush, emitted>>
    /\ UNCHANGED <<msgVars, boxVars, adVars, dpVars>>

\* the title of a submenu can be clicked once the submenu is set up
TitleClick(n) == n \in mounted /\ handleToggle(n)

\* the parent of ElMenu renders it with another uniqueOpened prop; the
\* provided context keeps the value copied at setup
SetUniqueOpened(value) ==
    /\ value # props.uniqueOpened
    /\ props' = [props EXCEPT !.uniqueOpened = value]
    /\ last' = [op |-> "SetUniqueOpened", key |-> Empty, parent |-> Null]
    /\ UNCHANGED <<menuContext, routeFullPath, openedKeys, parentMap,
                   pendingPush, emitted>>
    /\ UNCHANGED <<msgVars, boxVars, adVars, dpVars, lifeVars>>

----------------------------------------------------------------------------
(* The routing service *)

\* a navigation that did not come from a menu item
RouteChange(path) ==
    /\ path # routeFullPath
    /\ routeFullPath' = path
    /\ last' = [op |-> "RouteChange", key |-> path, parent |-> Null]
    /\ UNCHANGED <<props, menuContext, openedKeys, parentMap, pendingPush,
                   emitted>>
    /\ UNCHANGED <<msgVars, boxVars, adVars, dpVars, lifeVars>>

\* the router settles the oldest router.push: the route changes or it fails
RouterResolve(ok) ==
    /\ pendingPush # <<>>
    /\ routeFullPath' = IF ok THEN Head(pendingPush) ELSE routeFullPath
    /\ pendingPush' = Tail(pendingPush)
    /\ last' = [op |-> "RouterResolve", key |-> Head(pendingPush),
                parent |-> Null]
    /\ UNCHANGED <<props, menuContext, openedKeys, parentMap, emitted>>
    /\ UNCHANGED <<msgVars, boxVars, adVars, dpVars, lifeVars>>

----------------------------------------------------------------------------
(* The service registry and the ElMessage adapter *)

\* the null of a registry slot
NoService == "null"
ToastHandles == {"T1"}
ConfirmHandles == {"C1", "C2"}

\* an omitted type / an omitted duration
NoType == "undefined"
NoDuration == -1

MessageTypes == {"success", "info", "warning", "error", NoType}
Messages == {"saved", "failed"}
Durations == {NoDuration, 0, 1500}

\* the life of a toast whose duration is omitted
DefaultLife == 3000

\* bound on the number of ElMessage calls
MaxCalls == 2

\* slip: a registered handle is kept, the first writer wins
setPrimeToastService_firstWins(service) ==
    /\ toastService' = IF toastService = NoService THEN service
                       ELSE toastService
    /\ lastToastArg' = service
    /\ lastCall' = [op |-> "setPrimeToastService", arg |-> service,
                    message |-> "", type |-> NoType, duration |-> NoDuration]
    /\ UNCHANGED <<confirmService, lastConfirmArg, toastAdded, consoleLog>>
    /\ UNCHANGED <<menuVars, boxVars, adVars, dpVars, lifeVars>>

setPrimeToastService(service) ==
    /\ toastService' = service
    /\ lastToastArg' = service
    /\ lastCall' = [op |-> "setPrimeToastService", arg |-> service,
                    message |-> "", type |-> NoType, duration |-> NoDuration]
    /\ UNCHANGED <<confirmService, lastConfirmArg, toastAdded, consoleLog>>
    /\ UNCHANGED <<menuVars, boxVars, adVars, dpVars, lifeVars>>

setPrimeConfirmService(service) ==
    /\ confirmService' = service
    /\ lastConfirmArg' = service
    /\ lastCall' = [op |-> "setPrimeConfirmService", arg |-> service,
                    message |-> "", type |-> NoType, duration |-> NoDuration]
    /\ UNCHANGED <<toastService, lastToastArg, toastAdded, consoleLog>>
    /\ UNCHANGED <<menuVars, boxVars, adVars, dpVars, lifeVars>>

getPrimeToastService == toastService

\* slip: the handle the previous confirm request went to is used again
getPrimeConfirmService_cached ==
    IF requests # <<>> THEN requests[Len(requests)].to ELSE confirmService

getPrimeConfirmService == confirmService

resolveSeverity(type) ==
    CASE type = "success" -> "success"
      [] type = "warning" -> "warn"
      [] type = "error" -> "error"
      [] OTHER -> "info"

\* slip: options.duration || 3000
lifeOf_or(duration) ==
    IF duration = NoDuration \/ duration = 0 THEN DefaultLife ELSE duration

\* options.duration ?? 3000
lifeOf(duration) == IF duration = NoDuration THEN DefaultLife ELSE duration

\* slip: without a toast service the message is dropped
showToast_noFallback(op, options) ==
    LET toast == getPrimeToastService IN
    /\ Len(toastAdded) + Len(consoleLog) < MaxCalls
    /\ IF toast = NoService
       THEN UNCHANGED <<toastAdded, consoleLog>>
       ELSE /\ toastAdded' = Append(toastAdded,
                [to |-> toast,
                 rec |-> [severity |-> resolveSeverity(options.type),
                          detail |-> options.message,
                          life |-> lifeOf(options.duration)]])
            /\ UNCHANGED consoleLog
    /\ lastCall' = [op |-> op, arg |-> toast, message |-> options.message,
                    type |-> options.type, duration |-> options.duration]
    /\ UNCHANGED <<toastService, confirmService, lastToastArg,
                   lastConfirmArg>>
    /\ UNCHANGED <<menuVars, boxVars, adVars, dpVars, lifeVars>>

\* showToast(options), called by the entry point op
showToast(op, options) ==
    LET toast == getPrimeToastService IN
    /\ Len(toastAdded) + Len(consoleLog) < MaxCalls
    /\ IF toast = NoService
       THEN /\ consoleLog' = Append(consoleLog, options.message)
            /\ UNCHANGED toastAdded
       ELSE /\ toastAdded' = Append(toastAdded,
                [to |-> toast,
                 rec |-> [severity |-> resolveSeverity(options.type),
                          detail |-> options.message,
                          life |-> lifeOf(options.duration)]])
            /\ UNCHANGED consoleLog
    /\ lastCall' = [op |-> op, arg |-> toast, message |-> options.message,
                    type |-> options.type, duration |-> options.duration]
    /\ UNCHANGED <<toastService, confirmService, lastToastArg,
                   lastConfirmArg>>
    /\ UNCHANGED <<menuVars, boxVars, adVars, dpVars, lifeVars>>

\* ElMessage(options) with a string argument
ElMessage_string(message) ==
    showToast("ElMessage", [message |-> message, type |-> NoType,
                            duration |-> NoDuration])

\* ElMessage(options) with an options object
ElMessage_options(options) == showToast("ElMessage", options)

ElMessage_success(message, duration) ==
    showToast("ElMessage.success",
              [message |-> message, type |-> "success", duration |-> duration])

ElMessage_warning(message, duration) ==
    showToast("ElMessage.warning",
              [message |-> message, type |-> "warning", duration |-> duration])

ElMessage_info(message, duration) ==
    showToast("ElMessage.info",
              [message |-> message, type |-> "info", duration |-> duration])

ElMessage_error(message, duration) ==
    showToast("ElMessage.error",
              [message |-> message, type |-> "error", duration |-> duration])

----------------------------------------------------------------------------
(* JavaScript values that are passed on: tagged records *)

JSNull == [t |-> "null"]
JSUndefined == [t |-> "undefined"]
JSStr(text) == [t |-> "str", v |-> text]
JSNum(n) == [t |-> "num", v |-> n]
JSBool(b) == [t |-> "bool", v |-> b]

JSArr(elems) == [t |-> "arr", v |-> elems]

\* the numbers that are no finite number
JSInfinity == [t |-> "inf"]
JSNaN == [t |-> "nan"]

\* the object literal { value }
JSValueObject(value) == [t |-> "obj", value |-> value]

----------------------------------------------------------------------------
(* ElMessageBox: confirm, alert, prompt *)

\* an omitted title / omitted options
NoTitle == "undefined"
NoOptions == [confirmButtonText |-> "", cancelButtonText |-> ""]

\* the default header and button labels (the source has them in Chinese)
DefaultHeader == "QueRen"
DefaultRejectLabel == "QuXiao"
DefaultAcceptLabel == "QueDing"

BoxMessages == {"Proceed?"}
BoxTitles == {NoTitle, "Delete"}
BoxOptions == {NoOptions,
               [confirmButtonText |-> "Yes", cancelButtonText |-> ""]}

\* what window.prompt returns: null on dismissal, else the text
PromptEntries == {JSNull, JSStr(""), JSStr("Ada")}

\* bound on the number of ElMessageBox calls
MaxBoxCalls == 2

NoDialog == [fn |-> "none", message |-> ""]

\* slip: a settled promise is settled again
settle_overwrite(p, state, value) == [p EXCEPT !.state = state, !.value = value]

\* the resolve / reject functions of new Promise, Promise.resolve and
\* Promise.reject: only a pending promise is settled
settle(p, state, value) ==
    IF p.state = "pending"
    THEN [p EXCEPT !.state = state, !.value = value]
    ELSE p

PendingPromise(by) == [by |-> by, state |-> "pending", value |-> JSUndefined]

\* the callbacks the request of showConfirm carries, applied to its promise
invokeCallback(cb, p) ==
    CASE cb = "accept" -> settle(p, "fulfilled", JSStr("confirm"))
      [] cb = "reject" -> settle(p, "rejected", JSStr("cancel"))
      [] OTHER -> p

\* a || b on a string that may be omitted
TextOr(a, b) == IF a = NoTitle \/ a = "" THEN b ELSE a

\* showConfirm up to the point where it returns or blocks in window.confirm
showConfirm(message, title, options) ==
    LET confirm == getPrimeConfirmService IN
    /\ nativeDialog = NoDialog
    /\ Len(promises) < MaxBoxCalls
    /\ IF confirm = NoService
       THEN /\ nativeDialog' = [fn |-> "confirm", message |-> message]
            /\ nativeLog' = Append(nativeLog,
                                   [fn |-> "confirm", message |-> message])
            /\ UNCHANGED <<promises, requests>>
       ELSE /\ promises' = Append(promises, PendingPromise("confirm"))
            /\ requests' = Append(requests,
                 [to |-> confirm,
                  promise |-> Len(promises) + 1,
                  header |-> TextOr(title, DefaultHeader),
                  message |-> message,
                  rejectLabel |-> TextOr(options.cancelButtonText,
                                         DefaultRejectLabel),
                  acceptLabel |-> TextOr(options.confirmButtonText,
                                         DefaultAcceptLabel),
                  ended |-> "no"])
            /\ UNCHANGED <<nativeDialog, nativeLog>>
    /\ lastBox' = [op |-> "showConfirm",
                   idx |-> Len(promises) + Len(nativeLog) + 1,
                   arg |-> JSStr(message)]
    /\ UNCHANGED <<menuVars, msgVars, adVars, dpVars, lifeVars>>

ElMessageBox_confirm(message, title, options) ==
    showConfirm(message, title, options)

\* slip: the answer of window.confirm is not looked at
NativeConfirmReturn_alwaysConfirm(ok) ==
    /\ nativeDialog.fn = "confirm"
    /\ promises' = Append(promises,
          settle(PendingPromise("confirm"), "fulfilled", JSStr("confirm")))
    /\ nativeDialog' = NoDialog
    /\ lastBox' = [op |-> "NativeConfirmReturn", idx |-> Len(promises) + 1,
                   arg |-> JSBool(ok)]
    /\ UNCHANGED <<requests, nativeLog>>
    /\ UNCHANGED <<menuVars, msgVars, adVars, dpVars, lifeVars>>

\* window.confirm returns ok and showConfirm returns the settled promise
NativeConfirmReturn(ok) ==
    /\ nativeDialog.fn = "confirm"
    /\ promises' = Append(promises,
          IF ok
          THEN settle(PendingPromise("confirm"), "fulfilled",
                      JSStr("confirm"))
          ELSE settle(PendingPromise("confirm"), "rejected", JSStr("cancel")))
    /\ nativeDialog' = NoDialog
    /\ lastBox' = [op |-> "NativeConfirmReturn", idx |-> Len(promises) + 1,
                   arg |-> JSBool(ok)]
    /\ UNCHANGED <<requests, nativeLog>>
    /\ UNCHANGED <<menuVars, msgVars, adVars, dpVars, lifeVars>>

\* slip: the promise is returned without the message being displayed
ElMessageBox_alert_noDisplay(message) ==
    /\ nativeDialog = NoDialog
    /\ Len(promises) < MaxBoxCalls
    /\ promises' = Append(promises,
          settle(PendingPromise("alert"), "fulfilled", JSStr("confirm")))
    /\ lastBox' = [op |-> "ElMessageBox.alert", idx |-> 0,
                   arg |-> JSUndefined]
    /\ UNCHANGED <<requests, nativeLog, nativeDialog>>
    /\ UNCHANGED <<menuVars, msgVars, adVars, dpVars, lifeVars>>

\* ElMessageBox.alert up to the point where it blocks in window.alert
ElMessageBox_alert(message) ==
    /\ nativeDialog = NoDialog
    /\ Len(promises) < MaxBoxCalls
    /\ nativeDialog' = [fn |-> "alert", message |-> message]
    /\ nativeLog' = Append(nativeLog, [fn |-> "alert", message |-> message])
    /\ lastBox' = [op |-> "ElMessageBox.alert", idx |-> 0,
                   arg |-> JSUndefined]
    /\ UNCHANGED <<promises, requests>>
    /\ UNCHANGED <<menuVars, msgVars, adVars, dpVars, lifeVars>>

\* window.alert returns and ElMessageBox.alert returns its promise
NativeAlertReturn ==
    /\ nativeDialog.fn = "alert"
    /\ promises' = Append(promises,
          settle(PendingPromise("alert"), "fulfilled", JSStr("confirm")))
    /\ nativeDialog' = NoDialog
    /\ lastBox' = [op |-> "NativeAlertReturn", idx |-> Len(promises) + 1,
                   arg |-> JSUndefined]
    /\ UNCHANGED <<requests, nativeLog>>
    /\ UNCHANGED <<menuVars, msgVars, adVars, dpVars, lifeVars>>

\* ElMessageBox.prompt up to the point where it blocks in window.prompt
ElMessageBox_prompt(message) ==
    /\ nativeDialog = NoDialog
    /\ Len(promises) < MaxBoxCalls
    /\ nativeDialog' = [fn |-> "prompt", message |-> message]
    /\ nativeLog' = Append(nativeLog, [fn |-> "prompt", message |-> message])
    /\ lastBox' = [op |-> "ElMessageBox.prompt", idx |-> 0,
                   arg |-> JSUndefined]
    /\ UNCHANGED <<promises, requests>>
    /\ UNCHANGED <<menuVars, msgVars, adVars, dpVars, lifeVars>>

\* slip: if (!value) instead of if (value === null)
NativePromptReturn_falsy(value) ==
    /\ nativeDialog.fn = "prompt"
    /\ promises' = Append(promises,
          IF value = JSNull \/ value = JSStr("")
          THEN settle(PendingPromise("prompt"), "rejected", JSStr("cancel"))
          ELSE settle(PendingPromise("prompt"), "fulfilled",
                      JSValueObject(value)))
    /\ nativeDialog' = NoDialog
    /\ lastBox' = [op |-> "NativePromptReturn", idx |-> Len(promises) + 1,
                   arg |-> value]
    /\ UNCHANGED <<requests, nativeLog>>
    /\ UNCHANGED <<menuVars, msgVars, adVars, dpVars, lifeVars>>

\* window.prompt returns value and ElMessageBox.prompt returns its promise
NativePromptReturn(value) ==
    /\ nativeDialog.fn = "prompt"
    /\ promises' = Append(promises,
          IF value = JSNull
          THEN settle(PendingPromise("prompt"), "rejected", JSStr("cancel"))
          ELSE settle(PendingPromise("prompt"), "fulfilled",
                      JSValueObject(value)))
    /\ nativeDialog' = NoDialog
    /\ lastBox' = [op |-> "NativePromptReturn", idx |-> Len(promises) + 1,
                   arg |-> value]
    /\ UNCHANGED <<requests, nativeLog>>
    /\ UNCHANGED <<menuVars, msgVars, adVars, dpVars, lifeVars>>

(* The confirmation service and its dialog.  The user ends the dialog of   *)
(* request i by accepting, by rejecting, or by closing it without a        *)
(* choice; the service then invokes the callback of that name when the     *)
(* request carries one: accept, reject, onHide.                            *)
DialogEnds(i, how, cb) ==
    /\ nativeDialog = NoDialog
    /\ requests[i].ended = "no"
    /\ requests' = [requests EXCEPT ![i].ended = how]
    /\ promises' = [promises EXCEPT ![requests[i].promise] =
                        invokeCallback(cb, promises[requests[i].promise])]
    /\ lastBox' = [op |-> "DialogEnds", idx |-> i, arg |-> JSStr(how)]
    /\ UNCHANGED <<nativeLog, nativeDialog>>
    /\ UNCHANGED <<menuVars, msgVars, adVars, dpVars, lifeVars>>

DialogAccept(i) == DialogEnds(i, "accept", "accept")
DialogReject(i) == DialogEnds(i, "reject", "reject")
DialogDismiss(i) == DialogEnds(i, "dismiss", "onHide")

\* the service invokes a callback of an answered request once more
CallbackAgain(i, cb) ==
    /\ nativeDialog = NoDialog
    /\ requests[i].ended \in {"accept", "reject"}
    /\ promises' = [promises EXCEPT ![requests[i].promise] =
                        invokeCallback(cb, promises[requests[i].promise])]
    /\ lastBox' = [op |-> "CallbackAgain", idx |-> i, arg |-> JSStr(cb)]
    /\ UNCHANGED <<requests, nativeLog, nativeDialog>>
    /\ UNCHANGED <<menuVars, msgVars, adVars, dpVars, lifeVars>>

\* the registry is written while no native dialog blocks the thread
RegisterConfirmService(service) ==
    /\ nativeDialog = NoDialog
    /\ setPrimeConfirmService(service)

\* the toast slot is written while no native dialog blocks the thread
RegisterToastService(service) ==
    /\ nativeDialog = NoDialog
    /\ setPrimeToastService(service)

\* a message is shown while no native dialog blocks the thread
Notify(message) ==
    /\ nativeDialog = NoDialog
    /\ ElMessage_string(message)

----------------------------------------------------------------------------
(* Field adapters: ElPagination, ElSelect, ElCheckbox, ElRadio *)

\* bound on the currentPage prop
MaxPage == 4

PageNumbers == 1..MaxPage
\* the pageSize prop is any number: 0 is among the values
PageSizes == {0, 1, 10, 20}
Totals == {0, 100}

\* the offsets and row counts the paginator reports
Offsets == {0, 7, 20, 40, 60}

\* the values the select widget reports as selected; the last one is an
\* option value that has a field named value itself
SelectValues == {JSNull, JSUndefined, JSStr("a"), JSNum(0),
                 [t |-> "obj", value |-> JSStr("inner")]}

Labels == {"a", "b"}
LabelArrays == {<<>>, <<"a">>, <<"b">>, <<"a", "b">>}

Event(by, name, payload) == [by |-> by, name |-> name, payload |-> payload]

\* slip: the offset of the page after the current one
paginatorFirst_oneBased == pgProps.currentPage * pgProps.pageSize

\* first: (props.currentPage - 1) * props.pageSize
paginatorFirst == (pgProps.currentPage - 1) * pgProps.pageSize

\* rows: props.pageSize
paginatorRows == pgProps.pageSize

\* totalRecords: props.total
paginatorTotalRecords == pgProps.total

\* slip: the quotient is not rounded down
pageOf_noFloor(value, pageSize) ==
    IF pageSize = 0 THEN (IF value = 0 THEN JSNaN ELSE JSInfinity)
    ELSE IF value % pageSize = 0 THEN JSNum((value \div pageSize) + 1)
    ELSE [t |-> "fraction"]

\* Math.floor(value / pageSize) + 1 for value >= 0 and pageSize >= 0:
\* a division by 0 gives Infinity, and NaN for 0 / 0
pageOf(value, pageSize) ==
    IF pageSize = 0 THEN (IF value = 0 THEN JSNaN ELSE JSInfinity)
    ELSE JSNum((value \div pageSize) + 1)

\* slip: the page is computed without the + 1
onUpdateFirst_zeroBased(value) ==
    LET counted == pageOf(value, pgProps.pageSize)
        page == IF counted.t = "num" THEN JSNum(counted.v - 1) ELSE counted
    IN
    /\ adEmitted' = <<Event("ElPagination", "update:currentPage", page),
                      Event("ElPagination", "current-change", page)>>
    /\ lastAd' = [op |-> "onUpdate:first", arg |-> JSNum(value),
                  inGroup |-> FALSE]
    /\ UNCHANGED <<pgProps, cbModelValue, groupModel>>
    /\ UNCHANGED <<menuVars, msgVars, boxVars, dpVars, lifeVars>>

\* 'onUpdate:first': Math.floor of the quotient of two non-negative numbers
onUpdateFirst(value) ==
    LET page == pageOf(value, pgProps.pageSize) IN
    /\ adEmitted' = <<Event("ElPagination", "update:currentPage", page),
                      Event("ElPagination", "current-change", page)>>
    /\ lastAd' = [op |-> "onUpdate:first", arg |-> JSNum(value),
                  inGroup |-> FALSE]
    /\ UNCHANGED <<pgProps, cbModelValue, groupModel>>
    /\ UNCHANGED <<menuVars, msgVars, boxVars, dpVars, lifeVars>>

\* 'onUpdate:rows'
onUpdateRows(value) ==
    /\ adEmitted' = <<Event("ElPagination", "update:pageSize", JSNum(value)),
                      Event("ElPagination", "size-change", JSNum(value))>>
    /\ lastAd' = [op |-> "onUpdate:rows", arg |-> JSNum(value),
                  inGroup |-> FALSE]
    /\ UNCHANGED <<pgProps, cbModelValue, groupModel>>
    /\ UNCHANGED <<menuVars, msgVars, boxVars, dpVars, lifeVars>>

\* the parent renders ElPagination with other props
SetPaginationProps(newProps) ==
    /\ newProps # pgProps
    /\ pgProps' = newProps
    /\ adEmitted' = <<>>
    /\ lastAd' = [op |-> "SetPaginationProps", arg |-> JSUndefined,
                  inGroup |-> FALSE]
    /\ UNCHANGED <<cbModelValue, groupModel>>
    /\ UNCHANGED <<menuVars, msgVars, boxVars, dpVars, lifeVars>>

\* event?.value
OptionalValue(event) ==
    IF event.t \in {"null", "undefined"} THEN JSUndefined
    ELSE IF "value" \in DOMAIN event THEN event.value
    ELSE JSUndefined

\* a ?? b on passed-on values
NullishJS(a, b) == IF a.t \in {"null", "undefined"} THEN b ELSE a

\* ElSelect onChange: emit('change', event?.value ?? event)
ElSelect_onChange(event) ==
    /\ adEmitted' = <<Event("ElSelect", "change",
                            NullishJS(OptionalValue(event), event))>>
    /\ lastAd' = [op |-> "ElSelect.onChange", arg |-> event,
                  inGroup |-> FALSE]
    /\ UNCHANGED <<pgProps, cbModelValue, groupModel>>
    /\ UNCHANGED <<menuVars, msgVars, boxVars, dpVars, lifeVars>>

\* ElSelect 'onUpdate:modelValue'
ElSelect_onUpdateModelValue(value) ==
    /\ adEmitted' = <<Event("ElSelect", "update:modelValue", value)>>
    /\ lastAd' = [op |-> "ElSelect.onUpdate:modelValue", arg |-> value,
                  inGroup |-> FALSE]
    /\ UNCHANGED <<pgProps, cbModelValue, groupModel>>
    /\ UNCHANGED <<menuVars, msgVars, boxVars, dpVars, lifeVars>>

\* the update function a group provides: the group emits both events
groupUpdate(group, value) ==
    <<Event(group, "update:modelValue", value),
      Event(group, "change", value)>>

\* slip: the group provides the value it had at creation, not a getter
groupValue_atCreation(group) ==
    IF group = "ElCheckboxGroup" THEN JSArr(<<>>) ELSE JSStr("")

\* the value function a group provides: value: () => props.modelValue
groupValue(group) ==
    IF group = "ElCheckboxGroup" THEN groupModel.checkbox
    ELSE groupModel.radio

\* the modelValue ElCheckbox hands to the Checkbox widget
ElCheckbox_modelValue(inGroup) ==
    IF inGroup THEN groupValue("ElCheckboxGroup") ELSE cbModelValue

\* ElCheckbox 'onUpdate:modelValue', inside a group or standalone
ElCheckbox_onUpdate(inGroup, value) ==
    /\ adEmitted' = IF inGroup THEN groupUpdate("ElCheckboxGroup", value)
                    ELSE <<Event("ElCheckbox", "update:modelValue", value),
                           Event("ElCheckbox", "change", value)>>
    /\ lastAd' = [op |-> "ElCheckbox.onUpdate", arg |-> value,
                  inGroup |-> inGroup]
    /\ UNCHANGED <<pgProps, cbModelValue, groupModel>>
    /\ UNCHANGED <<menuVars, msgVars, boxVars, dpVars, lifeVars>>

\* the modelValue ElRadio hands to the RadioButton widget: group?.value()
ElRadio_modelValue(inGroup) ==
    IF inGroup THEN groupValue("ElRadioGroup") ELSE JSUndefined

\* ElRadio 'onUpdate:modelValue': group?.update(value)
ElRadio_onUpdate(inGroup, value) ==
    /\ adEmitted' = IF inGroup THEN groupUpdate("ElRadioGroup", value)
                    ELSE <<>>
    /\ lastAd' = [op |-> "ElRadio.onUpdate", arg |-> value,
                  inGroup |-> inGroup]
    /\ UNCHANGED <<pgProps, cbModelValue, groupModel>>
    /\ UNCHANGED <<menuVars, msgVars, boxVars, dpVars, lifeVars>>

\* the parent renders the checkbox and the groups with other model values
SetModelValues(own, groups) ==
    /\ <<own, groups>> # <<cbModelValue, groupModel>>
    /\ cbModelValue' = own
    /\ groupModel' = groups
    /\ adEmitted' = <<>>
    /\ lastAd' = [op |-> "SetModelValues", arg |-> JSUndefined,
                  inGroup |-> FALSE]
    /\ UNCHANGED pgProps
    /\ UNCHANGED <<menuVars, msgVars, boxVars, dpVars, lifeVars>>

----------------------------------------------------------------------------
(* ElDatePicker *)

\* a Date object: its time value, or an Invalid Date (time value NaN)
JSDate(time) == [t |-> "date", valid |-> TRUE, time |-> time]
InvalidDate == [t |-> "date", valid |-> FALSE, time |-> 0]

\* bound on the length of an array modelValue
MaxRange == 2

\* the time values new Date() returns at a render
NowTimes == {8, 9}

\* the strings every engine parses, with their time values
IsoTimes == [text \in {"2024-01-01", "2024-01-02"} |->
                IF text = "2024-01-01" THEN 1 ELSE 2]

\* the time value an engine may give to a string whose parsing the
\* language leaves to the implementation
LenientTime == 3

\* the type prop
DateTypes == {"date", "datetime", "daterange", "datetimerange"}

\* the elements of an array modelValue
DateElements == {JSNull, JSStr("2024-01-01"), JSStr("garbage"), InvalidDate}

\* the values of the modelValue prop that are not arrays
DateScalars == {JSNull, JSUndefined, JSStr(""), JSStr("2024-01-02"),
                JSStr("garbage"), JSDate(2), InvalidDate}

DateArrays ==
    UNION {[1..n -> DateElements] : n \in 0..MaxRange}

DateModelValues == DateScalars \cup {JSArr(a) : a \in DateArrays}

\* !value
Falsy(value) ==
    \/ value.t \in {"null", "undefined"}
    \/ value.t = "str" /\ value.v = ""
    \/ value.t = "bool" /\ ~value.v
    \/ value.t = "num" /\ value.v = 0

\* String(value); the text of an array of two or more elements and the text
\* of a valid Date are not spelled out
JSString(value) ==
    CASE value.t = "str" -> value.v
      [] value.t = "null" -> "null"
      [] value.t = "undefined" -> "undefined"
      [] value.t = "date" -> IF value.valid THEN "date text"
                             ELSE "Invalid Date"
      [] value.t = "arr" ->
            IF Len(value.v) = 0 THEN ""
            ELSE IF Len(value.v) = 1
                 THEN (IF value.v[1].t \in {"null", "undefined"} THEN ""
                       ELSE IF value.v[1].t = "str" THEN value.v[1].v
                       ELSE IF value.v[1].valid THEN "date text"
                       ELSE "Invalid Date")
                 ELSE "joined text"
      [] OTHER -> "other text"

\* new Date(text): the Date objects an engine can produce
ParseOutcomes(text) ==
    IF text \in DOMAIN IsoTimes THEN {JSDate(IsoTimes[text])}
    ELSE IF text = "joined text" THEN {InvalidDate, JSDate(LenientTime)}
    ELSE {InvalidDate}

\* toDate, with parsed = new Date(String(value))
toDate(value, parsed) ==
    IF Falsy(value) THEN JSNull
    ELSE IF value.t = "date" THEN value
    ELSE IF ~parsed.valid THEN JSNull
    ELSE parsed

\* the results toDate can have for a value
toDateOutcomes(value) ==
    {toDate(value, parsed) : parsed \in ParseOutcomes(JSString(value))}

\* a || now on what toDate returns: a Date object is truthy, valid or not
OrNow(a, now) == IF a.t = "null" THEN JSDate(now) ELSE a

\* range[i] of a JavaScript array, counted from 0
ArrayAt(range, i) == IF i + 1 <= Len(range) THEN range[i + 1] ELSE JSUndefined

\* toCalendarValue: every value the widget can be handed for the props
toCalendarValueOutcomes(value, type, now) ==
    IF type = "daterange" \/ type = "datetimerange"
    THEN LET range == IF value.t = "arr" THEN value.v
                      ELSE <<value, JSNull>>
         IN {JSArr(<<OrNow(start, now), OrNow(end, now)>>) :
                start \in toDateOutcomes(ArrayAt(range, 0)),
                end \in toDateOutcomes(ArrayAt(range, 1))}
    ELSE {OrNow(d, now) : d \in toDateOutcomes(value)}

\* the render function runs with the props the parent has set
ElDatePicker_render(modelValue, type) ==
    \E now \in NowTimes :
        \E shown \in toCalendarValueOutcomes(modelValue, type, now) :
            /\ dpProps' = [modelValue |-> modelValue, type |-> type]
            /\ dpShown' = shown
            /\ lastDp' = [op |-> "render", now |-> now]
            /\ UNCHANGED <<menuVars, msgVars, boxVars, adVars, lifeVars>>

----------------------------------------------------------------------------
(* Specifications *)

\* ElMenu.setup has run with any props and any current route
MenuInit ==
    /\ props \in [defaultActive : DefaultActives, uniqueOpened : BOOLEAN,
                  router : BOOLEAN]
    /\ menuContext = props
    /\ routeFullPath \in RoutePaths
    /\ openedKeys = {}
    /\ parentMap = [k \in {} |-> Null]
    /\ pendingPush = <<>>
    /\ emitted = <<>>
    /\ last = [op |-> "setup", key |-> Empty, parent |-> Null]

\* one menu with default props, left alone while the messages are checked
MenuIdle ==
    /\ MenuInit
    /\ props = [defaultActive |-> Empty, uniqueOpened |-> FALSE,
                router |-> FALSE]
    /\ routeFullPath = PathRoot

\* the module state of the registry after import
MsgInit ==
    /\ toastService = NoService
    /\ confirmService = NoService
    /\ lastToastArg = NoService
    /\ lastConfirmArg = NoService
    /\ toastAdded = <<>>
    /\ consoleLog = <<>>
    /\ lastCall = [op |-> "none", arg |-> NoService, message |-> "",
                   type |-> NoType, duration |-> NoDuration]

\* the adapters with default props, before any event
AdIdle ==
    /\ pgProps = [currentPage |-> 1, pageSize |-> 10, total |-> 0]
    /\ cbModelValue = JSUndefined
    /\ groupModel = [checkbox |-> JSArr(<<>>), radio |-> JSStr("")]
    /\ adEmitted = <<>>
    /\ lastAd = [op |-> "none", arg |-> JSUndefined, inGroup |-> FALSE]

\* ElDatePicker with default props, rendered once
DpIdle ==
    /\ dpProps = [modelValue |-> JSNull, type |-> "date"]
    /\ dpShown = JSDate(8)
    /\ lastDp = [op |-> "render", now |-> 8]

\* the setup of the submenus is not followed
LifeIdle == mounted = {}

\* no ElMessageBox call has been made
BoxInit ==
    /\ promises = <<>>
    /\ requests = <<>>
    /\ nativeLog = <<>>
    /\ nativeDialog = NoDialog
    /\ lastBox = [op |-> "none", idx |-> 0, arg |-> JSUndefined]

Init == MenuInit /\ MsgInit /\ BoxInit /\ AdIdle /\ DpIdle /\ LifeIdle

Next ==
    \/ \E key \in SubKeys \cup {Empty}, parentKey \in ParentKeys :
          key # parentKey /\ registerSubMenu(key, parentKey)
    \/ \E n \in SubMenuNodes : handleToggle(n)
    \/ \E n \in ItemNodes : handleClick(n)
    \/ \E path \in RoutePaths : RouteChange(path)
    \/ \E ok \in BOOLEAN : RouterResolve(ok)

Spec == Init /\ [][Next]_vars

\* the menu with its submenus being set up and its props being changed
NextLife ==
    \/ \E n \in SubMenuNodes : ElSubMenu_setup(n)
    \/ \E n \in SubMenuNodes : TitleClick(n)
    \/ \E key \in SubKeys \cup {Empty}, parentKey \in ParentKeys :
          key # parentKey /\ registerSubMenu(key, parentKey)
    \/ toggleOpen(Empty)
    \/ \E n \in ItemNodes : handleClick(n)
    \/ \E path \in LifePaths : RouteChange(path)
    \/ \E ok \in BOOLEAN : RouterResolve(ok)
    \/ \E value \in BOOLEAN : SetUniqueOpened(value)

\* ElMenu.setup has run, no submenu is set up yet
InitLife ==
    /\ MenuInit /\ MsgInit /\ BoxInit /\ AdIdle /\ DpIdle /\ LifeIdle
    /\ props.defaultActive = Empty
    /\ routeFullPath = PathRoot

SpecLife == InitLife /\ [][NextLife]_vars

NextMsg ==
    \/ \E service \in ToastHandles \cup {NoService} :
          setPrimeToastService(service)
    \/ \E service \in ConfirmHandles \cup {NoService} :
          setPrimeConfirmService(service)
    \/ \E message \in Messages : ElMessage_string(message)
    \/ \E options \in [message : Messages, type : MessageTypes,
                       duration : Durations] : ElMessage_options(options)
    \/ \E message \in Messages, duration \in Durations :
          ElMessage_success(message, duration)
    \/ \E message \in Messages, duration \in Durations :
          ElMessage_warning(message, duration)
    \/ \E message \in Messages, duration \in Durations :
          ElMessage_info(message, duration)
    \/ \E message \in Messages, duration \in Durations :
          ElMessage_error(message, duration)

InitMsg == MenuIdle /\ MsgInit /\ BoxInit /\ AdIdle /\ DpIdle /\ LifeIdle

SpecMsg == InitMsg /\ [][NextMsg]_vars

NextBox ==
    \/ \E service \in ConfirmHandles \cup {NoService} :
          RegisterConfirmService(service)
    \/ \E message \in BoxMessages, title \in BoxTitles,
          options \in BoxOptions :
          ElMessageBox_confirm(message, title, options)
    \/ \E ok \in BOOLEAN : NativeConfirmReturn(ok)
    \/ \E message \in BoxMessages : ElMessageBox_alert(message)
    \/ NativeAlertReturn
    \/ \E message \in BoxMessages : ElMessageBox_prompt(message)
    \/ \E value \in PromptEntries : NativePromptReturn(value)
    \/ \E i \in 1..Len(requests) : DialogAccept(i)
    \/ \E i \in 1..Len(requests) : DialogReject(i)
    \/ \E i \in 1..Len(requests) : DialogDismiss(i)
    \/ \E i \in 1..Len(requests), cb \in {"accept", "reject"} :
          CallbackAgain(i, cb)

\* the registry written between the calls of ElMessage and confirm
NextReg ==
    \/ \E service \in ToastHandles \cup {NoService} :
          RegisterToastService(service)
    \/ \E service \in ConfirmHandles \cup {NoService} :
          RegisterConfirmService(service)
    \/ Notify("saved")
    \/ ElMessageBox_confirm("Proceed?", NoTitle, NoOptions)
    \/ \E ok \in BOOLEAN : NativeConfirmReturn(ok)
    \/ \E i \in 1..Len(requests) : DialogAccept(i)
    \/ \E i \in 1..Len(requests) : DialogReject(i)

InitReg == MenuIdle /\ MsgInit /\ BoxInit /\ AdIdle /\ DpIdle /\ LifeIdle

SpecReg == InitReg /\ [][NextReg]_vars

NextAd ==
    \/ \E value \in Offsets \cup {paginatorFirst} : onUpdateFirst(value)
    \/ \E value \in PageSizes : onUpdateRows(value)
    \/ \E newProps \in [currentPage : PageNumbers, pageSize : PageSizes,
                        total : Totals] : SetPaginationProps(newProps)
    \/ \E value \in SelectValues :
          ElSelect_onChange([t |-> "event", value |-> value])
    \/ \E value \in SelectValues : ElSelect_onUpdateModelValue(value)
    \/ \E value \in BOOLEAN : ElCheckbox_onUpdate(FALSE, JSBool(value))
    \/ \E value \in LabelArrays : ElCheckbox_onUpdate(TRUE, JSArr(value))
    \/ \E inGroup \in BOOLEAN, value \in Labels :
          ElRadio_onUpdate(inGroup, JSStr(value))
    \/ \E own \in {JSUndefined, JSBool(TRUE), JSBool(FALSE)},
          boxes \in LabelArrays, radio \in Labels \cup {""} :
          SetModelValues(own, [checkbox |-> JSArr(boxes),
                               radio |-> JSStr(radio)])

\* the adapters rendered with any pagination props
AdInit ==
    /\ pgProps \in [currentPage : PageNumbers, pageSize : PageSizes,
                    total : Totals]
    /\ cbModelValue = JSUndefined
    /\ groupModel = [checkbox |-> JSArr(<<>>), radio |-> JSStr("")]
    /\ adEmitted = <<>>
    /\ lastAd = [op |-> "none", arg |-> JSUndefined, inGroup |-> FALSE]

InitAd == MenuIdle /\ MsgInit /\ BoxInit /\ AdInit /\ DpIdle /\ LifeIdle

NextDate ==
    \E modelValue \in DateModelValues, type \in DateTypes :
        ElDatePicker_render(modelValue, type)

InitDate == MenuIdle /\ MsgInit /\ BoxInit /\ AdIdle /\ DpIdle /\ LifeIdle

SpecDate == InitDate /\ [][NextDate]_vars

SpecAd == InitAd /\ [][NextAd]_vars

InitBox == MenuIdle /\ MsgInit /\ BoxInit /\ AdIdle /\ DpIdle /\ LifeIdle

SpecBox == InitBox /\ [][NextBox]_vars

----------------------------------------------------------------------------
(* Menu state: the claims C1 .. C7, checked under Spec *)

\* the parent group of a key: its registered parent, none when unregistered
ParentGroup(key) == Nullish(MapGet(key), Null)

\* every submenu of the tree is registered the way its setup registers it
RegisteredAsRendered ==
    \A n \in SubMenuNodes :
        MenuTree[n].index # Empty =>
            MapGet(MenuTree[n].index) = injectedParentKey(n)

\* C1: with uniqueOpened, in every state reachable by registerSubMenu and
\* toggleOpen calls, no two distinct opened keys have the same parent group.
C1_OnePerParentGroup ==
    props.uniqueOpened =>
        \A k1 \in openedKeys : \A k2 \in openedKeys :
            k1 # k2 => ParentGroup(k1) # ParentGroup(k2)

\* the openedKeys that C2 states for toggleOpen(key), from the state before
C2_Expected(key) ==
    IF key \in openedKeys THEN openedKeys \ {key}
    ELSE IF props.uniqueOpened
         THEN (openedKeys \ {k \in openedKeys :
                                ParentGroup(k) = ParentGroup(key)})
              \cup {key}
         ELSE openedKeys \cup {key}

\* C2: toggleOpen(key) for a non-empty key closes key when it was open;
\* otherwise it opens key, after closing with uniqueOpened exactly the opened
\* keys whose immediate parent is key's immediate parent.
C2_ToggleOpenResult ==
    [][(last'.op = "toggleOpen" /\ last'.key # Empty)
          => openedKeys' = C2_Expected(last'.key)]_vars

\* C2 witness: '/b' was opened under a parent other than that of the opened
\* '/ab', with uniqueOpened, and both are open
C2_Witness ==
    /\ props.uniqueOpened
    /\ last.op = "toggleOpen" /\ last.key = KeyB
    /\ openedKeys = {KeyAB, KeyB}
    /\ ParentGroup(KeyAB) # ParentGroup(KeyB)
    /\ KeyA \in DOMAIN parentMap /\ ParentGroup(KeyA) = ParentGroup(KeyAB)

\* the nodes below node n in the slot tree
RECURSIVE IsBelow(_, _)
IsBelow(d, n) ==
    /\ MenuTree[d].parent # 0
    /\ \/ MenuTree[d].parent = n
       \/ IsBelow(MenuTree[d].parent, n)

Descendants(n) == {d \in Nodes : IsBelow(d, n)}

\* C3: a submenu is reported opened exactly when its key is in openedKeys,
\* or a descendant node has an index equal to activePath, or its key is
\* non-empty and a raw string prefix of activePath.
C3_IsOpenedExactly ==
    \A n \in SubMenuNodes :
        ElSubMenu_isOpened(n) <=>
            \/ MenuTree[n].index \in openedKeys
            \/ \E d \in Descendants(n) : MenuTree[d].index = activePath
            \/ /\ MenuTree[n].index # Empty
               /\ Len(MenuTree[n].index) <= Len(activePath)
               /\ \A i \in 1..Len(MenuTree[n].index) :
                     MenuTree[n].index[i] = activePath[i]

\* C3 witness: '/a' is opened by the nested active leaf '/c' alone, the
\* toggled '/ab' by openedKeys alone, and the submenu '' is not opened
C3_Witness ==
    /\ activePath = PathC
    /\ openedKeys = {KeyAB}
    /\ ElSubMenu_isOpened(1) /\ ElSubMenu_isOpened(6)
    /\ ~ElSubMenu_isOpened(7)

\* C4: a submenu with a descendant leaf whose key equals activePath is
\* reported opened in every reachable state, toggled or not.
C4_ActiveBranchOpened ==
    \A n \in SubMenuNodes :
        (\E d \in Descendants(n) \cap ItemNodes :
            MenuTree[d].index = activePath)
        => ElSubMenu_isOpened(n)

\* C4 witness: toggleOpen('/b') has just removed '/b' from openedKeys while
\* its leaf '/c' is active, and the submenu is still reported opened
C4_Witness ==
    /\ last.op = "toggleOpen" /\ last.key = KeyB
    /\ KeyB \notin openedKeys
    /\ activePath = PathC
    /\ ElSubMenu_isOpened(4)

\* C5: with uniqueOpened, at most one submenu per parent group is rendered
\* as opened, in every reachable state of a menu whose submenus registered
\* and whose active path is the key of one of its leaves.
C5_OneRenderedPerGroup ==
    (/\ props.uniqueOpened
     /\ RegisteredAsRendered
     /\ \E n \in ItemNodes : isActive(n)) =>
        \A n1 \in SubMenuNodes : \A n2 \in SubMenuNodes :
            (/\ n1 # n2
             /\ injectedParentKey(n1) = injectedParentKey(n2)
             /\ ElSubMenu_isOpened(n1))
            => ~ElSubMenu_isOpened(n2)

\* the activePath that C6 states
C6_Expected ==
    IF props.defaultActive # Empty THEN props.defaultActive
    ELSE routeFullPath

\* C6: in every state, so after every route change, the activePath that the
\* menu, its items and its submenus see is defaultActive when that is
\* non-empty and the current route path otherwise.
C6_ActivePath ==
    /\ activePath = C6_Expected
    /\ activeKey = C6_Expected
    /\ \A n \in ItemNodes :
          isActive(n) <=> (MenuTree[n].index # Empty
                           /\ MenuTree[n].index = C6_Expected)
    /\ \A n \in SubMenuNodes :
          hasActiveChild(n) <=>
              \E d \in Descendants(n) :
                  MenuTree[d].index # Empty /\ MenuTree[d].index = C6_Expected

\* C6 witness: the route has changed to '/d' under defaultActive = '/c',
\* and the item '/c' is the active one
C6_Witness ==
    /\ last.op = "RouteChange" /\ routeFullPath = PathD
    /\ props.defaultActive = PathC
    /\ isActive(5) /\ ~isActive(8)

\* C7: a click on a leaf with a non-empty key makes exactly one navigation
\* request for the key when the menu's router flag is set; otherwise it
\* makes none and a selection is emitted.
C7_LeafClick ==
    [][(last'.op = "handleClick" /\ last'.key # Empty) =>
          IF menuContext.router
          THEN /\ pendingPush' = Append(pendingPush, last'.key)
          ELSE /\ pendingPush' = pendingPush
               /\ Len(emitted') = Len(emitted) + 1]_vars

----------------------------------------------------------------------------
(* Registry and messages: the claims C8 .. C10, checked under SpecMsg *)

NotifyOps == {"ElMessage", "ElMessage.success", "ElMessage.warning",
              "ElMessage.info", "ElMessage.error"}

\* C8: each registry slot holds the argument of the most recent set call of
\* that slot, null when there was none.
C8_LastWriterWins ==
    /\ getPrimeToastService = lastToastArg
    /\ getPrimeConfirmService = lastConfirmArg

\* C8 witness: a toast handle was registered and used, then null was set,
\* while the confirm slot holds the second of its handles
C8_Witness ==
    /\ lastCall.op = "setPrimeToastService" /\ lastCall.arg = NoService
    /\ toastAdded # <<>>
    /\ getPrimeToastService = NoService
    /\ getPrimeConfirmService = "C2"

\* the severity table of C9
C9_Severity ==
    [t \in MessageTypes |->
        IF t = "success" THEN "success"
        ELSE IF t = "warning" THEN "warn"
        ELSE IF t = "error" THEN "error"
        ELSE "info"]

\* C9: with a notifier registered, a notify call hands the handle exactly
\* one record: severity by the table, detail = the message, life = the
\* duration supplied, 3000 when it is omitted.
C9_NotifyRecord ==
    [][(lastCall'.op \in NotifyOps /\ toastService # NoService) =>
          /\ toastAdded' = Append(toastAdded,
                [to |-> toastService,
                 rec |-> [severity |-> C9_Severity[lastCall'.type],
                          detail |-> lastCall'.message,
                          life |-> IF lastCall'.duration = NoDuration
                                   THEN 3000 ELSE lastCall'.duration]])
          /\ consoleLog' = consoleLog]_vars

\* C9 witness: a second notify, ElMessage.warning without a duration, has
\* delivered a warn record of life 3000; the first one had duration 0
C9_Witness ==
    /\ lastCall.op = "ElMessage.warning" /\ lastCall.duration = NoDuration
    /\ Len(toastAdded) = 2
    /\ toastAdded[1].rec.life = 0
    /\ toastAdded[2].rec = [severity |-> "warn", detail |-> lastCall.message,
                            life |-> 3000]

\* C10: without a notifier at the time of the call, notify writes the
\* message to the diagnostic output and delivers no toast record, and a
\* later registration delivers none either.
C10_Fallback ==
    [][/\ (lastCall'.op \in NotifyOps /\ toastService = NoService) =>
            /\ consoleLog' = Append(consoleLog, lastCall'.message)
            /\ toastAdded' = toastAdded
       /\ lastCall'.op \in {"setPrimeToastService", "setPrimeConfirmService"}
            => (toastAdded' = toastAdded /\ consoleLog' = consoleLog)]_vars

\* C10 witness: a message went to the diagnostic output, a handle was
\* registered afterwards, and no record has been delivered
C10_Witness ==
    /\ lastCall.op = "setPrimeToastService" /\ lastCall.arg # NoService
    /\ consoleLog # <<>>
    /\ toastAdded = <<>>

----------------------------------------------------------------------------
(* ElMessageBox: the claims C11 .. C16, checked under SpecBox *)

\* a step of the ElMessageBox operation op (every such step changes lastBox)
BoxStep(op) == lastBox' # lastBox /\ lastBox'.op = op

\* C11: with a confirmation service registered, confirm issues one request
\* to it; the promise is fulfilled with 'confirm' when the user accepts and
\* rejected with 'cancel' when the user rejects or dismisses the dialog.
C11_ConfirmOutcome ==
    [][/\ (BoxStep("showConfirm") /\ confirmService # NoService) =>
            /\ Len(requests') = Len(requests) + 1
            /\ requests'[Len(requests')].to = confirmService
            /\ promises'[requests'[Len(requests')].promise].state = "pending"
       /\ \A i \in 1..Len(requests) :
            (requests[i].ended = "no" /\ requests'[i].ended # "no") =>
                LET p == promises'[requests[i].promise] IN
                IF requests'[i].ended = "accept"
                THEN p.state = "fulfilled" /\ p.value = JSStr("confirm")
                ELSE p.state = "rejected" /\ p.value = JSStr("cancel")]_vars

\* C12: a promise of confirm or prompt that is fulfilled or rejected never
\* changes again, whatever callback the service invokes afterwards.
C12_SettledOnce ==
    [][\A i \in 1..Len(promises) :
          promises[i].state # "pending" => promises'[i] = promises[i]]_vars

\* C12 witness: the service invoked reject after the user had accepted, and
\* the promise is still fulfilled with 'confirm'; a prompt promise exists too
C12_Witness ==
    /\ lastBox.op = "CallbackAgain" /\ lastBox.arg = JSStr("reject")
    /\ requests[lastBox.idx].ended = "accept"
    /\ promises[requests[lastBox.idx].promise].state = "fulfilled"
    /\ promises[requests[lastBox.idx].promise].value = JSStr("confirm")
    /\ \E i \in 1..Len(promises) : promises[i].by = "prompt"

\* C13: once the user has ended the dialog of a confirm request, by accept,
\* reject or dismiss, the promise of the request is not left pending.
C13_SettledOnceEnded ==
    \A i \in 1..Len(requests) :
        requests[i].ended # "no" =>
            promises[requests[i].promise].state # "pending"

\* after a dismissal nothing settles the promise any more
C13_DismissedStaysPending ==
    [][\A i \in 1..Len(requests) :
          (/\ requests[i].ended = "dismiss"
           /\ promises[requests[i].promise].state = "pending")
          => (/\ requests'[i].ended = "dismiss"
              /\ promises'[requests[i].promise].state = "pending")]_vars

\* C14: without a confirmation service, confirm asks window.confirm once
\* and returns a promise already fulfilled with 'confirm' on yes and
\* already rejected with 'cancel' on no.
C14_NativeConfirm ==
    [][/\ (BoxStep("showConfirm") /\ confirmService = NoService) =>
            /\ nativeLog' = Append(nativeLog,
                  [fn |-> "confirm", message |-> lastBox'.arg.v])
            /\ requests' = requests
       /\ BoxStep("NativeConfirmReturn") =>
            /\ nativeLog' = nativeLog
            /\ requests' = requests
            /\ Len(promises') = Len(promises) + 1
            /\ SubSeq(promises', 1, Len(promises)) = promises
            /\ LET p == promises'[Len(promises')] IN
               IF lastBox'.arg = JSBool(TRUE)
               THEN p.state = "fulfilled" /\ p.value = JSStr("confirm")
               ELSE p.state = "rejected" /\ p.value = JSStr("cancel")]_vars

\* C14 witness: window.confirm was asked once, the answer was no, and the
\* promise returned is rejected with 'cancel'
C14_Witness ==
    /\ lastBox.op = "NativeConfirmReturn" /\ lastBox.arg = JSBool(FALSE)
    /\ confirmService = NoService
    /\ nativeLog = <<[fn |-> "confirm", message |-> "Proceed?"]>>
    /\ Len(promises) = 1
    /\ promises[1].state = "rejected" /\ promises[1].value = JSStr("cancel")

\* the number of entries of a sequence with field f equal to x
CountNative(x) == Cardinality({i \in 1..Len(nativeLog) : nativeLog[i].fn = x})
CountPromises(x) == Cardinality({i \in 1..Len(promises) : promises[i].by = x})

\* C15: every promise of alert is fulfilled with 'confirm', never rejected,
\* and it exists only after its message has been displayed.
C15_Alert ==
    /\ \A i \in 1..Len(promises) :
          promises[i].by = "alert" =>
              (promises[i].state = "fulfilled"
               /\ promises[i].value = JSStr("confirm"))
    /\ CountPromises("alert")
          + (IF nativeDialog.fn = "alert" THEN 1 ELSE 0)
       = CountNative("alert")

\* C15 witness: alert has returned its promise while a confirmation service
\* is registered
C15_Witness ==
    /\ lastBox.op = "NativeAlertReturn"
    /\ confirmService # NoService
    /\ promises[lastBox.idx].by = "alert"
    /\ promises[lastBox.idx].state = "fulfilled"
    /\ requests = <<>>

\* C16: prompt fulfils with {value: text} for every text submitted, the
\* empty one included, and rejects with 'cancel' exactly on a null entry.
C16_Prompt ==
    [][BoxStep("NativePromptReturn") =>
          /\ Len(promises') = Len(promises) + 1
          /\ LET p == promises'[Len(promises')] IN
             IF lastBox'.arg = JSNull
             THEN p.state = "rejected" /\ p.value = JSStr("cancel")
             ELSE /\ p.state = "fulfilled"
                  /\ p.value = [t |-> "obj", value |-> lastBox'.arg]]_vars

\* C16 witness: the empty text was submitted and the promise is fulfilled
\* with {value: ''}
C16_Witness ==
    /\ lastBox.op = "NativePromptReturn" /\ lastBox.arg = JSStr("")
    /\ promises[lastBox.idx].state = "fulfilled"
    /\ promises[lastBox.idx].value = [t |-> "obj", value |-> JSStr("")]

----------------------------------------------------------------------------
(* Field adapters: the claims C17 .. C20, checked under SpecAd *)

\* C17: with currentPage >= 1 and pageSize >= 1 the paginator is handed the
\* zero-based offset of the current page, which lies one page below
\* currentPage * pageSize (40 for page 3 of size 20), and rows = pageSize.
C17_FirstAndRows ==
    (pgProps.currentPage >= 1 /\ pgProps.pageSize >= 1) =>
        /\ paginatorFirst + pgProps.pageSize
             = pgProps.currentPage * pgProps.pageSize
        /\ paginatorFirst >= 0
        /\ paginatorRows = pgProps.pageSize
        /\ (pgProps.currentPage = 3 /\ pgProps.pageSize = 20)
             => paginatorFirst = 40

C17_Witness ==
    /\ lastAd.op = "SetPaginationProps"
    /\ pgProps.currentPage = 3
    /\ pgProps.pageSize = 20
    /\ paginatorFirst = 40
    /\ paginatorRows = 20

\* the one page number pg whose page of the given size holds the offset
PageHolding(pg, offset, size) ==
    (pg - 1) * size <= offset /\ offset < pg * size

\* C18: an offset change makes ElPagination emit update:currentPage and then
\* current-change, both with the page that holds the offset under the current
\* pageSize, and nothing about the size; a rows change makes it emit
\* update:pageSize and then size-change with the new size, and nothing about
\* the page.
C18_PaginationEvents ==
    [][/\ lastAd'.op = "onUpdate:first" =>
            /\ Len(adEmitted') = 2
            /\ adEmitted'[1].name = "update:currentPage"
            /\ adEmitted'[2].name = "current-change"
            /\ adEmitted'[1].payload = adEmitted'[2].payload
            /\ IF pgProps.pageSize >= 1
               THEN PageHolding(adEmitted'[1].payload.v, lastAd'.arg.v,
                                pgProps.pageSize)
               ELSE adEmitted'[1].payload.t \in {"inf", "nan"}
       /\ lastAd'.op = "onUpdate:rows" =>
            /\ Len(adEmitted') = 2
            /\ adEmitted'[1].name = "update:pageSize"
            /\ adEmitted'[2].name = "size-change"
            /\ adEmitted'[1].payload = lastAd'.arg
            /\ adEmitted'[2].payload = lastAd'.arg]_vars

C18_Witness ==
    /\ lastAd = [op |-> "onUpdate:first", arg |-> JSNum(60),
                 inGroup |-> FALSE]
    /\ pgProps.pageSize = 20
    /\ adEmitted = <<Event("ElPagination", "update:currentPage", JSNum(4)),
                     Event("ElPagination", "current-change", JSNum(4))>>

\* C19: a change event of the select widget makes ElSelect emit change once
\* with the newly selected value itself, whatever that value is, and an
\* update:modelValue of the widget makes it emit update:modelValue once with
\* the same value.
C19_SelectChangePayload ==
    [][/\ lastAd'.op = "ElSelect.onChange" =>
            adEmitted' = <<Event("ElSelect", "change", lastAd'.arg.value)>>
       /\ lastAd'.op = "ElSelect.onUpdate:modelValue" =>
            adEmitted' = <<Event("ElSelect", "update:modelValue",
                                 lastAd'.arg)>>]_vars

\* C20: a standalone item (checkbox or radio outside a group) shows its own
\* modelValue and answers an update of the widget by emitting
\* update:modelValue and then change, itself, with the new value.
C20_StandaloneItem ==
    [][/\ (lastAd'.op = "ElCheckbox.onUpdate" /\ ~lastAd'.inGroup) =>
            adEmitted' = <<Event("ElCheckbox", "update:modelValue",
                                 lastAd'.arg),
                           Event("ElCheckbox", "change", lastAd'.arg)>>
       /\ (lastAd'.op = "ElRadio.onUpdate" /\ ~lastAd'.inGroup) =>
            adEmitted' = <<Event("ElRadio", "update:modelValue", lastAd'.arg),
                           Event("ElRadio", "change", lastAd'.arg)>>]_vars

\* the checkbox half of C20 on its own
C20_StandaloneCheckbox ==
    [][(lastAd'.op = "ElCheckbox.onUpdate" /\ ~lastAd'.inGroup) =>
          /\ adEmitted' = <<Event("ElCheckbox", "update:modelValue",
                                  lastAd'.arg),
                            Event("ElCheckbox", "change", lastAd'.arg)>>
          /\ ElCheckbox_modelValue(FALSE) = cbModelValue]_vars

\* the select adapter passes every selected value other than null and
\* undefined, and every update:modelValue, on unchanged
C19_SelectNonNullish ==
    [][/\ (/\ lastAd'.op = "ElSelect.onChange"
           /\ lastAd'.arg.value.t \notin {"null", "undefined"}) =>
            adEmitted' = <<Event("ElSelect", "change", lastAd'.arg.value)>>
       /\ lastAd'.op = "ElSelect.onUpdate:modelValue" =>
            adEmitted' = <<Event("ElSelect", "update:modelValue",
                                 lastAd'.arg)>>]_vars

\* C21: an item inside a group shows the modelValue the group has now, and
\* an update of its widget makes the group, not the item, emit
\* update:modelValue and then change, once each, with the new value.
C21_GroupItem ==
    [][/\ ElCheckbox_modelValue(TRUE)' = groupModel'.checkbox
       /\ ElRadio_modelValue(TRUE)' = groupModel'.radio
       /\ (lastAd'.op = "ElCheckbox.onUpdate" /\ lastAd'.inGroup) =>
            /\ Len(adEmitted') = 2
            /\ adEmitted'[1] = [by |-> "ElCheckboxGroup",
                                name |-> "update:modelValue",
                                payload |-> lastAd'.arg]
            /\ adEmitted'[2] = [by |-> "ElCheckboxGroup", name |-> "change",
                                payload |-> lastAd'.arg]
       /\ (lastAd'.op = "ElRadio.onUpdate" /\ lastAd'.inGroup) =>
            /\ Len(adEmitted') = 2
            /\ adEmitted'[1] = [by |-> "ElRadioGroup",
                                name |-> "update:modelValue",
                                payload |-> lastAd'.arg]
            /\ adEmitted'[2] = [by |-> "ElRadioGroup", name |-> "change",
                                payload |-> lastAd'.arg]]_vars

\* C21 witness: the radio group's modelValue has changed to 'b' since the
\* items were created, an item inside it shows 'b' and the user picks 'a'
C21_Witness ==
    /\ lastAd = [op |-> "ElRadio.onUpdate", arg |-> JSStr("a"),
                 inGroup |-> TRUE]
    /\ groupModel.radio = JSStr("b")
    /\ ElRadio_modelValue(TRUE) = JSStr("b")
    /\ Len(adEmitted) = 2
    /\ \A i \in 1..2 : adEmitted[i].by = "ElRadioGroup"

----------------------------------------------------------------------------
(* ElDatePicker: the claim C22, checked under SpecDate *)

IsValidDate(d) == d.t = "date" /\ d.valid

IsRangeType == dpProps.type \in {"daterange", "datetimerange"}

\* C22: the widget is handed a valid date for the single types and a pair of
\* two valid dates for the range types, whatever the modelValue is.
C22_AlwaysValidDate ==
    IF IsRangeType
    THEN /\ dpShown.t = "arr"
         /\ Len(dpShown.v) = 2
         /\ IsValidDate(dpShown.v[1])
         /\ IsValidDate(dpShown.v[2])
    ELSE IsValidDate(dpShown)

\* a Date object that is handed over as it came
IsDateObject(value) == value.t = "date"

\* what holds of ElDatePicker: absent values and strings that do not parse
\* are replaced by the current date, the range types always get a pair, and
\* the only invalid dates handed over are Date objects of the modelValue
C22_AbsentOrUnparseable ==
    LET value == dpProps.modelValue
        now == JSDate(lastDp.now)
        range == IF value.t = "arr" THEN value.v ELSE <<value, JSNull>>
        Good(shown, given) ==
            /\ shown.t = "date"
            /\ IsDateObject(given) => shown = given
            /\ ~IsDateObject(given) => shown.valid
            /\ (Falsy(given) \/ JSString(given) \in {"garbage", ""})
                  => shown = now
    IN IF IsRangeType
       THEN /\ dpShown.t = "arr" /\ Len(dpShown.v) = 2
            /\ Good(dpShown.v[1], ArrayAt(range, 0))
            /\ Good(dpShown.v[2], ArrayAt(range, 1))
       ELSE Good(dpShown, value)

----------------------------------------------------------------------------
(* Menu state: the claims C23 .. C28, checked under Spec and SpecLife *)

AllKeys == SubKeys \cup {Empty}

\* C23 as stated: the opened state a submenu reports to its renderer
\* changes only in a toggleOpen step.
C23_OnlyToggleChangesReported ==
    [][last'.op # "toggleOpen" =>
          \A n \in SubMenuNodes :
              ElSubMenu_isOpened(n)' = ElSubMenu_isOpened(n)]_vars

\* what activePath alone makes a submenu report: a node below it has the
\* active path as its key, or its own key begins the active path
C23_OpenedByPath(n) ==
    \/ \E d \in Descendants(n) : MenuTree[d].index = activePath
    \/ /\ MenuTree[n].index # Empty
       /\ Len(MenuTree[n].index) <= Len(activePath)
       /\ SubSeq(activePath, 1, Len(MenuTree[n].index)) = MenuTree[n].index

\* C23 amended: the opened state a submenu reports is fixed by the
\* membership of its key in openedKeys and by activePath; the membership
\* (the menu's isOpened) changes only in a toggleOpen step, and activePath
\* changes neither by registerSubMenu nor by a leaf click alone.
C23_ReportedFollowsToggleAndPath ==
    /\ [](\A n \in SubMenuNodes :
            ElSubMenu_isOpened(n) <=>
                (MenuTree[n].index \in openedKeys \/ C23_OpenedByPath(n)))
    /\ [][/\ last'.op # "toggleOpen" =>
               \A key \in AllKeys : isOpened(key)' = isOpened(key)
          /\ last'.op \in {"registerSubMenu", "handleClick",
                           "handleToggle"} =>
               activePath' = activePath]_vars

\* C23 witness: a route change alone has turned the never toggled submenu
\* '/a' opened
C23_Witness ==
    /\ last.op = "RouteChange"
    /\ openedKeys = {}
    /\ KeyA \in DOMAIN parentMap
    /\ activePath = PathAX
    /\ ElSubMenu_isOpened(1)

\* C24: openedKeys is written by toggleOpen alone, toggleOpen leaves
\* parentMap alone, and toggleOpen('') and registerSubMenu('', p) change
\* neither.
C24_Frame ==
    [][/\ last'.op # "toggleOpen" => openedKeys' = openedKeys
       /\ last'.op = "toggleOpen" => parentMap' = parentMap
       /\ (last'.op \in {"toggleOpen", "registerSubMenu"}
           /\ last'.key = Empty) =>
            /\ openedKeys' = openedKeys
            /\ parentMap' = parentMap]_vars

\* C24 witness: toggleOpen('') was called with keys opened and registered
C24_Witness ==
    /\ last.op = "toggleOpen" /\ last.key = Empty
    /\ openedKeys = {KeyA, KeyB}
    /\ DOMAIN parentMap = SubKeys

\* a key whose parent is none: registered at top level, or not registered
TopLevel(key) == key \notin DOMAIN parentMap \/ parentMap[key] = Null

\* C25: parentMap gains an entry only by registerSubMenu and loses none,
\* and with uniqueOpened the opening of a key that is unregistered or
\* registered at top level closes exactly the opened keys that are
\* unregistered or registered at top level.
C25_UnregisteredIsTopLevel ==
    [][/\ last'.op # "registerSubMenu" => parentMap' = parentMap
       /\ last'.op = "registerSubMenu" =>
            DOMAIN parentMap' = DOMAIN parentMap \cup ({last'.key} \ {Empty})
       /\ (/\ last'.op = "toggleOpen"
           /\ last'.key # Empty
           /\ last'.key \notin openedKeys
           /\ props.uniqueOpened
           /\ TopLevel(last'.key)) =>
            openedKeys' = (openedKeys \ {k \in openedKeys : TopLevel(k)})
                          \cup {last'.key}]_vars

\* C25 witness: the unregistered '/ab' has just been opened with
\* uniqueOpened; the top-level '/a' is closed and '/b', registered under
\* '/a', is still opened
C25_Witness ==
    /\ props.uniqueOpened
    /\ last.op = "toggleOpen" /\ last.key = KeyAB
    /\ KeyAB \notin DOMAIN parentMap
    /\ KeyA \in DOMAIN parentMap /\ parentMap[KeyA] = Null
    /\ KeyB \in DOMAIN parentMap /\ parentMap[KeyB] = KeyA
    /\ openedKeys = {KeyAB, KeyB}

\* the submenu nodes rendered with a key
NodesWithKey(key) == {n \in SubMenuNodes : MenuTree[n].index = key}

C26_RegisteredAtToggle ==
    [][(last'.op = "toggleOpen" /\ last'.key # Empty) =>
          \A n \in NodesWithKey(last'.key) :
              n \in mounted /\ last'.key \in DOMAIN parentMap]_vars

\* C27: every toggleOpen that opens a key applies the uniqueOpened value
\* the menu had when it was created.
C27_PolicyAsCreated ==
    [][(/\ last'.op = "toggleOpen"
        /\ last'.key # Empty
        /\ last'.key \notin openedKeys) =>
          openedKeys' =
              IF menuContext.uniqueOpened
              THEN closeSiblings(openedKeys, openedKeys,
                                 Nullish(MapGet(last'.key), Null))
                   \cup {last'.key}
              ELSE openedKeys \cup {last'.key}]_vars

\* C28: without uniqueOpened, toggleOpen(key) applied to the result of
\* toggleOpen(key) gives back the openedKeys from before, and toggling key
\* and then another key gives what toggling them in the other order gives.
C28_Involution ==
    [][(/\ last'.op = "toggleOpen"
        /\ last'.key # Empty
        /\ ~props.uniqueOpened) =>
          /\ toggleFrom(openedKeys', last'.key) = openedKeys
          /\ \A other \in SubKeys \ {last'.key} :
                toggleFrom(openedKeys', other)
                  = toggleFrom(toggleFrom(openedKeys, other), last'.key)]_vars

\* C28 witness: '/a' has been opened and closed again while '/b' stayed
\* opened
C28_Witness ==
    /\ ~props.uniqueOpened
    /\ last.op = "toggleOpen" /\ last.key = KeyA
    /\ openedKeys = {KeyB}

----------------------------------------------------------------------------
(* ElPagination: the claim C30, checked under SpecAd *)

\* C30: with pageSize >= 1, the offset-change handler fed with the offset
\* derived from currentPage emits currentPage, and fed with any offset >= 0
\* it emits an integer >= 1; the emitted page is no finite integer exactly
\* when pageSize is 0.
C30_RoundTrip ==
    [][lastAd'.op = "onUpdate:first" =>
          LET page == adEmitted'[1].payload
              offset == lastAd'.arg.v
          IN /\ (pgProps.pageSize >= 1 /\ pgProps.currentPage >= 1
                 /\ offset = (pgProps.currentPage - 1) * pgProps.pageSize)
                   => page = JSNum(pgProps.currentPage)
             /\ (pgProps.pageSize >= 1 /\ offset >= 0)
                   => page.t = "num" /\ page.v >= 1
             /\ page.t # "num" <=> pgProps.pageSize = 0]_vars

\* C30 witness: page 3 of size 20 gives the offset 40, which the handler
\* has turned back into page 3
C30_Witness ==
    /\ pgProps.currentPage = 3 /\ pgProps.pageSize = 20
    /\ paginatorFirst = 40
    /\ lastAd = [op |-> "onUpdate:first", arg |-> JSNum(40),
                 inGroup |-> FALSE]
    /\ adEmitted[1] = Event("ElPagination", "update:currentPage", JSNum(3))

----------------------------------------------------------------------------
(* Registry and adapters: the claim C29, checked under SpecReg *)

\* C29: a confirm request goes to the handle registered when confirm is
\* called and stays with it; writing the registry settles no promise and
\* moves no request; with null registered, confirm opens the native dialog
\* and a message goes to the console, and neither reaches a handle.
C29_BoundAtCallTime ==
    [][/\ \A i \in 1..Len(requests) :
            /\ requests'[i].to = requests[i].to
            /\ requests'[i].promise = requests[i].promise
            /\ promises'[requests[i].promise] # promises[requests[i].promise]
                  => /\ requests[i].ended = "no"
                     /\ requests'[i].ended \in {"accept", "reject"}
                     /\ confirmService' = confirmService
       /\ Len(requests') > Len(requests) =>
            /\ confirmService # NoService
            /\ requests'[Len(requests')].to = confirmService
            /\ promises'[requests'[Len(requests')].promise].state = "pending"
       /\ (BoxStep("showConfirm") /\ confirmService = NoService) =>
            /\ requests' = requests
            /\ nativeDialog'.fn = "confirm"
       /\ toastAdded' # toastAdded =>
            /\ toastService # NoService
            /\ toastAdded' = Append(toastAdded, toastAdded'[Len(toastAdded')])
            /\ toastAdded'[Len(toastAdded')].to = toastService
       /\ consoleLog' # consoleLog =>
            toastService = NoService /\ toastAdded' = toastAdded]_vars

\* C29 witness: a confirm was handed to C1, the registry was then set to
\* null, a second confirm took the native dialog, and C1's accept has now
\* fulfilled the first one
C29_Witness ==
    /\ confirmService = NoService
    /\ Len(requests) = 1
    /\ requests[1].to = "C1" /\ requests[1].ended = "accept"
    /\ promises[requests[1].promise].state = "fulfilled"
    /\ Len(nativeLog) = 1
    /\ lastBox.op = "DialogEnds"

====
